---------------------------- MODULE Spec2Model ----------------------------
(***************************************************************************)
(* A model of the chordr audio-processing backend (processor/src).         *)
(*                                                                         *)
(*  - the job ledger: services/task_manager.py (TaskManager)               *)
(*  - the HTTP handlers that use it: api/routes.py                         *)
(*  - one analysis run: services/audio_processor.py (AudioProcessor)       *)
(*  - chord smoothing, key estimation and chord matching:                  *)
(*    services/chord_detector.py (ChordDetector)                           *)
(*  - transcript postprocessing and audio preprocessing:                   *)
(*    services/lyric_extractor.py (LyricExtractor)                         *)
(*                                                                         *)
(* The web server handles requests on concurrent threads (Flask's          *)
(* development server is threaded), so every handler is a sequence of      *)
(* steps of one thread, interleaved with the steps of the others.  Steps   *)
(* that touch nothing shared are merged into the step before them.         *)
(***************************************************************************)
EXTENDS Integers, Sequences, FiniteSets, TLC

(***************************************************************************)
(* Bounds of the model.                                                    *)
(***************************************************************************)
NumJobs == 2
NumThreads == 2
MaxCalls == 3
MaxLen == 4           \* the longest progression given to the smoother
MaxTime == 4          \* the latest segment time, in ticks
TicksPerSecond == 2   \* the resolution of a segment's time

JobIds == 1..NumJobs
Threads == 1..NumThreads
NoThread == 0

VARIABLES
    jobs,       \* TaskManager.jobs: the in-memory ledger, job id -> record
    disk,       \* the contents of jobs.json
    lock,       \* TaskManager.lock: the thread that holds it, or NoThread
    now,        \* the wall clock, as read by datetime.now()
    calls,      \* how many calls have begun so far
    lastWrite,  \* how the most recent _save_jobs (or _load_jobs) ended
    results,    \* results[j]: OUTPUT_FOLDER/<j>_results.json exists
    th,         \* th[t]: the call thread t is executing
    last,       \* the call that returned most recently, and what it returned
    prog,       \* smoothing: the progression given to the smoother
    sm1,        \* smoothing: _smooth_chord_progression(prog)
    sm2,        \* smoothing: _smooth_chord_progression(sm1)
    spc,        \* smoothing: how many passes have run
    whisper,    \* lyrics: result['segments'] of the transcription
    lyrics_data,\* lyrics: what extract_lyrics returned
    chroma,     \* chords: the chroma frames given to the detector
    detected,   \* chords: what the detector returned for them
    clip,       \* preprocessing: the audio file and the vocal_isolation flag
    audio,      \* preprocessing: the stages applied to the audio in memory
    ppc,        \* preprocessing: the stage to run next
    returned    \* preprocessing: what _preprocess_audio returned

ledgerVars == <<jobs, disk, lock, now, calls, lastWrite, results, th, last>>
smoothVars == <<prog, sm1, sm2, spc>>
lyricVars == <<whisper, lyrics_data>>
chordVars == <<chroma, detected>>
preVars == <<clip, audio, ppc, returned>>
pureVars == <<smoothVars, lyricVars, chordVars, preVars>>
vars == <<ledgerVars, pureVars>>

-----------------------------------------------------------------------------
(***************************************************************************)
(* The ledger: task_manager.py                                             *)
(***************************************************************************)

\* The values of a record's 'status' key.  routes.py writes 'uploaded' and
\* 'processing'; 'completed' and 'failed' are the terminal statuses that
\* download_results and the result document use.
Statuses == {"uploaded", "processing", "completed", "failed"}

\* A job id that is not a key of the dict: jobs.get(job_id) is None.
Absent == [status |-> "absent", updated_at |-> 0]

\* job_data as upload_file builds it: status 'uploaded' and no 'updated_at' key
\* (updated_at = 0 stands for the missing key).
NewJob == [status |-> "uploaded", updated_at |-> 0]

EmptyLedger == [j \in JobIds |-> Absent]

\* jobs.json that does not parse (a truncated write).
Corrupt == [ok |-> FALSE, data |-> EmptyLedger]

\* _load_jobs: the parsed file, or {} when it is missing or malformed.
LoadJobs(d) == IF d.ok THEN d.data ELSE EmptyLedger

\* The ways one _save_jobs call can end.  Every exception is caught and
\* printed, so the caller sees none of them.
SaveOutcomes == {"ok", "open_failed", "dump_failed"}

\* A _save_jobs that returns without having written the file.
WriteFileSkipped(d, js, outcome) == d

\* _save_jobs: open(jobs_file, 'w') truncates the file, json.dump writes the
\* whole ledger.  A failing open leaves the file as it was; a failure after the
\* open leaves a truncated file.
WriteFile(d, js, outcome) ==
    CASE outcome = "ok" -> [ok |-> TRUE, data |-> js]
      [] outcome = "open_failed" -> d
      [] outcome = "dump_failed" -> Corrupt

\* A thread that is executing no call.  A thread in a call keeps the call's
\* name, its position, its arguments and the status it found ('old').
Idle == [op |-> "none", pc |-> "idle", job |-> 0, arg |-> "", old |-> ""]

\* No call has returned yet.  A returned call keeps its name and arguments,
\* what it returned ('ret'), the record a get_job returned ('obs') and whether
\* that record was half written ('mixed'), and, of a run, the stages that
\* failed and whether the result carries an 'error' key.
NoCall == [op |-> "none", job |-> 0, arg |-> "", old |-> "", ret |-> "",
           obs |-> Absent, mixed |-> FALSE, failed |-> {}, err |-> FALSE]

\* A thread can begin a call when it is executing none.  The model follows
\* the first MaxCalls calls.
Free(t) == th[t].pc = "idle" /\ calls < MaxCalls

Call(op, j) == [Idle EXCEPT !.op = op, !.job = j]

Returned(c, ret) ==
    [NoCall EXCEPT !.op = c.op, !.job = c.job, !.arg = c.arg, !.old = c.old,
                   !.ret = ret]

\* create_job, lines 46-47: take the lock, store the record under the id.
CreateJob(t, j) ==
    /\ Free(t)
    /\ calls' = calls + 1
    /\ lock = NoThread
    /\ lock' = t
    /\ jobs' = [jobs EXCEPT ![j] = NewJob]
    /\ th' = [th EXCEPT ![t] = [Call("create", j) EXCEPT
                                   !.pc = "save", !.old = jobs[j].status]]
    /\ UNCHANGED <<disk, now, lastWrite, results, last, pureVars>>

\* An update that writes without waiting for the lock.
UpdateWriteUnlocked(t, j, s, op) ==
    /\ lock' = t
    /\ IF jobs[j] # Absent
         THEN /\ jobs' = [jobs EXCEPT ![j].status = s]
              /\ th' = [th EXCEPT ![t] = [Call(op, j) EXCEPT
                              !.pc = "stamp", !.arg = s, !.old = jobs[j].status]]
         ELSE /\ jobs' = jobs
              /\ th' = [th EXCEPT ![t] = [Call(op, j) EXCEPT
                              !.pc = "save", !.arg = s, !.old = "absent"]]

\* update_job_status, lines 54-56: take the lock; if the id is a key, write
\* the status.  No other condition is checked.
UpdateWrite(t, j, s, op) ==
    /\ lock = NoThread
    /\ lock' = t
    /\ IF jobs[j] # Absent
         THEN /\ jobs' = [jobs EXCEPT ![j].status = s]
              /\ th' = [th EXCEPT ![t] = [Call(op, j) EXCEPT
                              !.pc = "stamp", !.arg = s, !.old = jobs[j].status]]
         ELSE /\ jobs' = jobs
              /\ th' = [th EXCEPT ![t] = [Call(op, j) EXCEPT
                              !.pc = "save", !.arg = s, !.old = "absent"]]

\* A direct call of update_job_status(job_id, status).
UpdateJobStatus(t, j, s) ==
    /\ Free(t)
    /\ calls' = calls + 1
    /\ UpdateWrite(t, j, s, "update")
    /\ UNCHANGED <<disk, now, lastWrite, results, last, pureVars>>

\* update_job_status, line 57: updated_at = datetime.now().
UpdateStamp(t) ==
    /\ th[t].pc = "stamp"
    /\ now' = now + 1
    /\ jobs' = [jobs EXCEPT ![th[t].job].updated_at = now + 1]
    /\ th' = [th EXCEPT ![t].pc = "save"]
    /\ UNCHANGED <<calls, disk, lock, lastWrite, results, last, pureVars>>

\* The end of create_job and update_job_status: _save_jobs, then the lock is
\* released and the call returns None.  In process_audio the handler goes on
\* to start the worker.
SaveJobs(t) ==
    /\ th[t].pc = "save"
    /\ \E outcome \in SaveOutcomes :
         /\ disk' = WriteFile(disk, jobs, outcome)
         /\ lastWrite' = outcome
         /\ IF th[t].op = "process"
              THEN /\ th' = [th EXCEPT ![t].pc = "spawn"]
                   /\ last' = last
              ELSE /\ th' = [th EXCEPT ![t] = Idle]
                   /\ last' = Returned(th[t], "ok")
    /\ lock' = NoThread
    /\ UNCHANGED <<calls, jobs, now, results, pureVars>>

\* Some thread is rewriting the record: it has written the new status and not
\* yet the new updated_at, and the new status differs from the old one.  What
\* a reader sees then is neither the record before the call nor the record
\* after it.
HalfWritten(j) ==
    \E u \in Threads : /\ th[u].pc = "stamp"
                       /\ th[u].job = j
                       /\ th[u].old # th[u].arg

\* get_job, line 51: self.jobs.get(job_id), without the lock.
GetJob(t, j) ==
    /\ Free(t)
    /\ calls' = calls + 1
    /\ last' = [Returned(Call("get", j),
                         IF jobs[j] = Absent THEN "none" ELSE "record") EXCEPT
                   !.obs = jobs[j], !.mixed = HalfWritten(j)]
    /\ UNCHANGED <<jobs, disk, lock, now, lastWrite, results, th, pureVars>>

\* TaskManager() once the instance exists (routes.py:14 and
\* audio_processor.py:12 both call it): __new__ returns the one instance and
\* __init__ returns at line 20, so the ledger and its lock stay as they are.
Construct == UNCHANGED vars

\* The process stops and is started again: __init__ runs _load_jobs.  Every
\* request thread is gone.  A stop in the middle of _save_jobs may leave the
\* file as it was or truncated.
Restart ==
    /\ \E t \in Threads : th[t].pc # "idle"
    /\ \E d \in {disk} \cup (IF \E t \in Threads : th[t].pc = "save"
                              THEN {Corrupt} ELSE {}) :
         /\ disk' = d
         /\ jobs' = LoadJobs(d)
    /\ lock' = NoThread
    /\ lastWrite' = "loaded"
    /\ th' = [t \in Threads |-> Idle]
    /\ last' = NoCall
    /\ UNCHANGED <<calls, now, results, pureVars>>

-----------------------------------------------------------------------------
(***************************************************************************)
(* The handlers: api/routes.py                                             *)
(***************************************************************************)

\* upload_file, lines 33-52: the job id is a fresh uuid4, so the id is not a
\* key of the ledger; the record is stored with create_job.
UploadFile(t, j) ==
    /\ jobs[j] = Absent
    /\ CreateJob(t, j)

\* process_audio, lines 68-73: read the record without the lock; 404 when
\* there is none, 400 when its status is not 'uploaded'; otherwise go on to
\* update_job_status.
ProcessCheck(t, j) ==
    /\ Free(t)
    /\ calls' = calls + 1
    /\ IF jobs[j] = Absent
         THEN /\ last' = Returned(Call("process", j), "404")
              /\ th' = th
         ELSE IF jobs[j].status # "uploaded"
         THEN /\ last' = [Returned(Call("process", j), "400") EXCEPT
                             !.old = jobs[j].status]
              /\ th' = th
         ELSE /\ th' = [th EXCEPT ![t] = [Call("process", j) EXCEPT
                              !.pc = "update", !.old = jobs[j].status]]
              /\ last' = last
    /\ UNCHANGED <<jobs, disk, lock, now, lastWrite, results, pureVars>>

\* process_audio, line 75: update_job_status(job_id, 'processing').
ProcessUpdate(t) ==
    /\ th[t].pc = "update"
    /\ UpdateWrite(t, th[t].job, "processing", "process")
    /\ UNCHANGED <<calls, disk, now, lastWrite, results, last, pureVars>>

\* process_audio, lines 78 and 88-90: AudioProcessor has no attribute
\* process_audio_async, so building the Thread raises AttributeError; the
\* handler's except clause answers 500 and no worker is started.
ProcessSpawn(t) ==
    /\ th[t].pc = "spawn"
    /\ last' = Returned(th[t], "500")
    /\ th' = [th EXCEPT ![t] = Idle]
    /\ UNCHANGED <<calls, jobs, disk, lock, now, lastWrite, results, pureVars>>

\* download_results, lines 114-127.
DownloadResults(t, j) ==
    /\ Free(t)
    /\ calls' = calls + 1
    /\ last' = Returned(Call("download", j),
                   IF jobs[j] = Absent THEN "404"
                   ELSE IF jobs[j].status # "completed" THEN "200_not_completed"
                   ELSE IF ~results[j] THEN "404_file_not_found"
                   ELSE "file")
    /\ UNCHANGED <<jobs, disk, lock, now, lastWrite, results, th, pureVars>>

-----------------------------------------------------------------------------
(***************************************************************************)
(* One run: AudioProcessor.process_audio, services/audio_processor.py      *)
(***************************************************************************)

\* What librosa.load and the two length checks can do (lines 30-38).
AudioOutcomes == {"ok", "unreadable", "empty", "short"}

\* What a collaborator stage can do.
StageOutcomes == {"ok", "error"}

\* What the stages of one run can do: the audio load, chord detection, lyric
\* extraction, the write of the result file.  After a failing load the run
\* returns at once (line 46) and the later stages do not run.
RunOutcomes ==
    {<<a, "skipped", "skipped", "skipped">> : a \in AudioOutcomes \ {"ok"}}
    \cup {<<"ok", c, l, w>> : c \in StageOutcomes, l \in StageOutcomes,
                              w \in StageOutcomes}

\* The stages of a run that failed, given what each collaborator did.
FailedStages(a, c, l, w) ==
    IF a # "ok" THEN {"audio"}
    ELSE (IF c = "error" THEN {"chords"} ELSE {})
         \cup (IF l = "error" THEN {"lyrics"} ELSE {})
         \cup (IF w = "error" THEN {"write"} ELSE {})

\* The 'status' of the result document process_audio returns.
\*  - lines 42-46: a failing load, an empty or a short file: 'failed'.
\*  - lines 56, 61: detect_chords and extract_lyrics catch every exception of
\*    their own and return a dict with an 'error' key, so the run goes on.
\*  - line 65: 'completed'.
\*  - lines 73-75 and 80-99: a failing write is caught by the outer except:
\*    'failed'.
ResultStatus(a, c, l, w) ==
    IF a # "ok" THEN "failed"
    ELSE IF w = "error" THEN "failed"
    ELSE "completed"

\* Whether the result document has a top-level 'error' key (lines 45, 97).
ResultError(a, c, l, w) == a # "ok" \/ w = "error"

\* process_audio, lines 24-25: get_job, then job_data['filepath'].  For an id
\* that is not in the ledger get_job returns None and the subscript raises
\* TypeError, which the outer except turns into a 'failed' result (80-99).
RunLookup(t, j) ==
    /\ Free(t)
    /\ calls' = calls + 1
    /\ IF jobs[j] = Absent
         THEN /\ last' = [Returned(Call("run", j), "failed") EXCEPT
                             !.old = "absent", !.failed = {"lookup"},
                             !.err = TRUE]
              /\ th' = th
         ELSE /\ th' = [th EXCEPT ![t] = [Call("run", j) EXCEPT
                              !.pc = "analyse", !.old = jobs[j].status]]
              /\ last' = last
    /\ UNCHANGED <<jobs, disk, lock, now, lastWrite, results, pureVars>>

\* process_audio, lines 27-99: load, analyse, write the result file, return
\* the result.  The ledger is neither read nor written.
RunAnalyse(t) ==
    /\ th[t].pc = "analyse"
    /\ \E o \in RunOutcomes :
         /\ results' = IF ResultStatus(o[1], o[2], o[3], o[4]) = "completed"
                         THEN [results EXCEPT ![th[t].job] = TRUE]
                         ELSE results
         /\ last' = [Returned(th[t], ResultStatus(o[1], o[2], o[3], o[4])) EXCEPT
                        !.failed = FailedStages(o[1], o[2], o[3], o[4]),
                        !.err = ResultError(o[1], o[2], o[3], o[4])]
    /\ th' = [th EXCEPT ![t] = Idle]
    /\ UNCHANGED <<calls, jobs, disk, lock, now, lastWrite, pureVars>>

-----------------------------------------------------------------------------
(***************************************************************************)
(* Smoothing: ChordDetector._smooth_chord_progression                      *)
(*                                                                         *)
(* A progression is a sequence of segments {'time', 'chord',               *)
(* 'confidence'}.  Times are counted in ticks of 1/TicksPerSecond second.  *)
(***************************************************************************)

\* Chord labels: the smoother only compares them for equality.
Chords == {"C", "Am", "N"}

\* Confidences, in percent: the smoother never reads them.
Confs == {80}

Segments == [time : 0..MaxTime, chord : Chords, confidence : Confs]

\* min_duration = 1.0 (line 193), in ticks.
MinDuration == 1 * TicksPerSecond

\* The progressions _detect_chord_progression can hand over: segment times do
\* not decrease.
Progressions ==
    UNION {{p \in [1..n -> Segments] :
               \A i \in 1..(n - 1) : p[i].time <= p[i + 1].time} : n \in 0..MaxLen}

\* A smoother that compares each segment with the one before it in the input.
PreviousInput(p, i, smoothed) == p[i - 1]

\* line 201: last_chord = smoothed[-1].
LastChord(p, i, smoothed) == smoothed[Len(smoothed)]

\* A smoother that does not keep the last segment for being the last.
KeepsWithoutLast(current_chord, last_chord, isLast) ==
    /\ current_chord.chord # last_chord.chord
    /\ current_chord.time - last_chord.time >= MinDuration

\* A smoother that keeps a segment for a new chord or for a late start.
KeepsEither(current_chord, last_chord, isLast) ==
    \/ current_chord.chord # last_chord.chord
    \/ current_chord.time - last_chord.time >= MinDuration
    \/ isLast

\* lines 204-207: the segment is kept when its chord differs from the last
\* kept one and starts at least min_duration after it, or when it is the last
\* segment of the input.
Keeps(current_chord, last_chord, isLast) ==
    \/ /\ current_chord.chord # last_chord.chord
       /\ current_chord.time - last_chord.time >= MinDuration
    \/ isLast

\* lines 199-208: the loop, from index i (1-based here) on.
RECURSIVE SmoothLoop(_, _, _)
SmoothLoop(p, i, smoothed) ==
    IF i > Len(p) THEN smoothed
    ELSE IF Keeps(p[i], LastChord(p, i, smoothed), i = Len(p))
    THEN SmoothLoop(p, i + 1, Append(smoothed, p[i]))
    ELSE SmoothLoop(p, i + 1, smoothed)

\* _smooth_chord_progression, lines 193-210.
SmoothChordProgression(p) ==
    IF Len(p) <= 1 THEN p ELSE SmoothLoop(p, 2, <<p[1]>>)

\* detect_chords, line 30: the progression is smoothed.
SmoothOnce ==
    /\ spc = 0
    /\ sm1' = SmoothChordProgression(prog)
    /\ spc' = 1
    /\ UNCHANGED <<prog, sm2, ledgerVars, lyricVars, chordVars, preVars>>

\* The smoothed progression is smoothed again.
SmoothAgain ==
    /\ spc = 1
    /\ sm2' = SmoothChordProgression(sm1)
    /\ spc' = 2
    /\ UNCHANGED <<prog, sm1, ledgerVars, lyricVars, chordVars, preVars>>

-----------------------------------------------------------------------------
(***************************************************************************)
(* Transcript postprocessing: services/lyric_extractor.py.                 *)
(*                                                                         *)
(* Probabilities and confidences are in percent.  A mean is kept as a      *)
(* fraction n/d and compared by cross-multiplication.  Times are whole     *)
(* seconds, which round(x, 2) leaves as they are.  The 'text' of a segment *)
(* and the 'start' and 'end' of a word are copied through and left out.    *)
(***************************************************************************)
MaxSegments == 2      \* the most raw segments of one transcription
MaxWords == 2         \* the most words of one raw segment

SegmentThreshold == 20
WordThreshold == 10
DefaultWordProbability == 50
DefaultSegmentConfidence == 70

\* str.strip() on the word texts of the model.
Strip(text) ==
    CASE text = " la" -> "la"
      [] text = " " -> ""
      [] OTHER -> text

\* The words the transcription may give: one at the word threshold, one of
\* whitespace only, and one without a 'probability' key.
RawWords ==
    { [word |-> " la", probability |-> 10],
      [word |-> " ", probability |-> 30],
      [word |-> " la"] }

Durations == {1, 2}

WordLists == UNION {[1..n -> RawWords] : n \in 0..MaxWords}

\* What a raw segment carries besides its times: no 'words' key, or a list.
Bodies ==
    {[has |-> FALSE, words |-> <<>>]} \cup
    {[has |-> TRUE, words |-> w] : w \in WordLists}

RawSegment(start, duration, body) ==
    IF body.has
    THEN [start |-> start, end |-> start + duration, words |-> body.words]
    ELSE [start |-> start, end |-> start + duration]

\* Consecutive raw segments from time start on.
RECURSIVE Timed(_, _)
Timed(parts, start) ==
    IF parts = <<>> THEN <<>>
    ELSE <<RawSegment(start, Head(parts).duration, Head(parts).body)>>
         \o Timed(Tail(parts), start + Head(parts).duration)

\* The durations and bodies of the segments of one transcription.
TranscriptParts ==
    UNION {[1..n -> [duration : Durations, body : Bodies]] :
              n \in 0..MaxSegments}

Rat(n, d) == [n |-> n, d |-> d]
RatGreater(a, percent) == a.n > percent * a.d
RatEqual(a, b) == a.n * b.d = b.n * a.d
RatAdd(a, b) == Rat(a.n * b.d + b.n * a.d, a.d * b.d)

\* line 224, 246: word.get('probability', 0.5)
WordProbability(word) ==
    IF "probability" \in DOMAIN word THEN word.probability
    ELSE DefaultWordProbability

RECURSIVE SumProbabilities(_)
SumProbabilities(words) ==
    IF words = <<>> THEN 0
    ELSE WordProbability(Head(words)) + SumProbabilities(Tail(words))

\* lines 242-250
GetSegmentConfidence(segment) ==
    IF "words" \in DOMAIN segment
    THEN IF Len(segment.words) > 0
         THEN Rat(SumProbabilities(segment.words), Len(segment.words))
         ELSE Rat(DefaultWordProbability, 1)
    ELSE Rat(DefaultSegmentConfidence, 1)

\* A word filter that lets every word through.
WordKeptAlways(word) == TRUE

\* line 225
WordKept(word) ==
    /\ WordProbability(word) > WordThreshold
    /\ Strip(word.word) # ""

\* lines 222-232
HighConfidenceWords(segment) ==
    LET kept == SelectSeq(segment.words, WordKept)
    IN  [i \in 1..Len(kept) |->
            [word |-> Strip(kept[i].word),
             confidence |-> WordProbability(kept[i])]]

\* A segment with word data is appended whatever is left of its words.
SegmentIncludedAlways(high_confidence_words) == TRUE

\* line 235: if high_confidence_words
SegmentIncluded(high_confidence_words) == Len(high_confidence_words) > 0

\* lines 204-240
RECURSIVE FormatSegments(_)
FormatSegments(segments) ==
    IF segments = <<>> THEN <<>>
    ELSE
      LET segment == Head(segments)
          segment_confidence == GetSegmentConfidence(segment)
          rest == FormatSegments(Tail(segments))
      IN  IF ~RatGreater(segment_confidence, SegmentThreshold) THEN rest
          ELSE IF "words" \in DOMAIN segment
          THEN LET high_confidence_words == HighConfidenceWords(segment)
               IN  IF SegmentIncluded(high_confidence_words)
                   THEN <<[start |-> segment.start, end |-> segment.end,
                           confidence |-> segment_confidence,
                           words |-> high_confidence_words]>> \o rest
                   ELSE rest
          ELSE <<[start |-> segment.start, end |-> segment.end,
                  confidence |-> segment_confidence]>> \o rest

\* The sum of confidence * duration over a list of such pairs.
RECURSIVE TotalConfidence(_)
TotalConfidence(pairs) ==
    IF pairs = <<>> THEN Rat(0, 1)
    ELSE RatAdd(Rat(Head(pairs).confidence.n * Head(pairs).duration,
                    Head(pairs).confidence.d),
                TotalConfidence(Tail(pairs)))

RECURSIVE TotalDuration(_)
TotalDuration(pairs) ==
    IF pairs = <<>> THEN 0
    ELSE Head(pairs).duration + TotalDuration(Tail(pairs))

\* lines 258-267: the duration-weighted mean of a list of pairs
WeightedMean(pairs) ==
    IF TotalDuration(pairs) > 0
    THEN Rat(TotalConfidence(pairs).n,
             TotalConfidence(pairs).d * TotalDuration(pairs))
    ELSE Rat(0, 1)

\* lines 252-267: the confidence of each segment is computed anew from it
CalculateAverageConfidence(segments) ==
    IF segments = <<>> THEN Rat(0, 1)
    ELSE WeightedMean([i \in 1..Len(segments) |->
            [confidence |-> GetSegmentConfidence(segments[i]),
             duration |-> segments[i].end - segments[i].start]])

\* lines 269-274
GetTotalDuration(segments) ==
    IF segments = <<>> THEN 0 ELSE segments[Len(segments)].end

NoLyrics == [pending |-> TRUE]

\* extract_lyrics, lines 96-117: the transcription succeeded
ExtractLyrics ==
    /\ lyrics_data = NoLyrics
    /\ lyrics_data' =
          [segments |-> FormatSegments(whisper),
           confidence |-> CalculateAverageConfidence(whisper),
           duration |-> GetTotalDuration(whisper)]
    /\ UNCHANGED <<whisper, ledgerVars, smoothVars, chordVars, preVars>>

\* extract_lyrics, lines 119-127: loading the model or transcribing raised
ExtractLyricsFailed ==
    /\ lyrics_data = NoLyrics
    /\ lyrics_data' =
          [segments |-> <<>>, confidence |-> Rat(0, 1), error |-> "Exception"]
    /\ UNCHANGED <<whisper, ledgerVars, smoothVars, chordVars, preVars>>

InitLyricIdle ==
    /\ whisper = <<>>
    /\ lyrics_data = NoLyrics

-----------------------------------------------------------------------------
(***************************************************************************)
(* Key estimation and chord matching: services/chord_detector.py.          *)
(*                                                                         *)
(* A chroma matrix is a sequence of frames, a frame a value per pitch      *)
(* class.  A vector of reals is kept as integer numerators over one        *)
(* denominator; a mean or a normalisation changes the denominator.  The    *)
(* Pearson correlation of x and y is n / sqrt(d) with                      *)
(*     n = 12*sum(x*y) - sum(x)*sum(y)                                     *)
(*     d = (12*sum(x*x) - sum(x)^2) * (12*sum(y*y) - sum(y)^2)             *)
(* which does not depend on the denominators; two correlations are         *)
(* compared by their signed squares.  d = 0 is numpy's 0/0, a NaN.         *)
(***************************************************************************)
MaxFrames == 3        \* the most frames of one chroma matrix
SegmentLength == 2    \* frames in one segment, int(2 * sr / hop_length)

NaN == -1             \* a chroma value that is not a number

PitchClasses == 0..11
NoteNames == <<"C", "C#", "D", "D#", "E", "F", "F#", "G", "G#", "A", "A#", "B">>
MajorIntervals == {0, 4, 7}
MinorIntervals == {0, 3, 7}

\* lines 56-78: the mask of one template
Template(root, chord_type) ==
    [p \in PitchClasses |->
        IF \E interval \in (IF chord_type = "major" THEN MajorIntervals
                                                   ELSE MinorIntervals) :
               p = (root + interval) % 12
        THEN 1 ELSE 0]

\* The keys of self.chord_templates in insertion order: 0_major, 0_minor,
\* 1_major, ...
TemplateNames ==
    [k \in 1..24 |-> [root |-> (k - 1) \div 2,
                      chord_type |-> IF k % 2 = 1 THEN "major" ELSE "minor"]]

\* self.chord_templates, by position
ChordTemplates ==
    [k \in 1..24 |-> Template(TemplateNames[k].root, TemplateNames[k].chord_type)]

\* Every name is a major chord's name.
GetChordNameOfRoot(root, chord_type) == NoteNames[root + 1]

\* lines 184-191
GetChordName(root, chord_type) ==
    IF chord_type = "minor" THEN NoteNames[root + 1] \o "m"
    ELSE NoteNames[root + 1]

MajorProfile == <<635, 223, 348, 233, 438, 409, 252, 519, 239, 366, 229, 288>>
MinorProfile == <<633, 268, 352, 538, 260, 353, 254, 475, 398, 269, 334, 317>>

IsNaN(v) == v = NaN
Plus(a, b) == IF IsNaN(a) \/ IsNaN(b) THEN NaN ELSE a + b

AnyNaN(x) == \E p \in PitchClasses : IsNaN(x[p])

\* np.sum of the numerators x: a NaN if one of them is
VectorSum(x) ==
    IF AnyNaN(x) THEN NaN
    ELSE x[0] + x[1] + x[2] + x[3] + x[4] + x[5]
         + x[6] + x[7] + x[8] + x[9] + x[10] + x[11]

\* The sum of pitch class p over the frames.
RECURSIVE ColumnSum(_, _)
ColumnSum(frames, p) ==
    IF frames = <<>> THEN 0
    ELSE Plus(Head(frames)[p], ColumnSum(Tail(frames), p))

\* np.mean(chroma, axis=1); the mean of no frames is NaN
MeanChroma(frames) ==
    IF frames = <<>> THEN [num |-> [p \in PitchClasses |-> NaN], den |-> 1]
    ELSE [num |-> [p \in PitchClasses |-> ColumnSum(frames, p)],
          den |-> Len(frames)]

\* v / np.sum(v)
Normalise(v) == [num |-> v.num, den |-> VectorSum(v.num)]

Corr(n, d) == [n |-> n, d |-> d]
CorrZero == Corr(0, 1)
CorrMinusOne == Corr(-1, 1)
CorrIsNaN(c) == c.d = 0
Abs(n) == IF n < 0 THEN -n ELSE n
CorrGreater(a, b) == a.n * Abs(a.n) * b.d > b.n * Abs(b.n) * a.d

\* The sum of the products of two vectors without a NaN.
Dot(x, y) ==
    x[0] * y[0] + x[1] * y[1] + x[2] * y[2] + x[3] * y[3]
    + x[4] * y[4] + x[5] * y[5] + x[6] * y[6] + x[7] * y[7]
    + x[8] * y[8] + x[9] * y[9] + x[10] * y[10] + x[11] * y[11]
Deviation(x) == 12 * Dot(x, x) - VectorSum(x) * VectorSum(x)
Covariance(x, y) == 12 * Dot(x, y) - VectorSum(x) * VectorSum(y)

\* np.corrcoef(x, y)[0, 1]
Correlation(x, y) ==
    IF AnyNaN(x) THEN Corr(0, 0)
    ELSE Corr(Covariance(x, y), Deviation(x) * Deviation(y))

\* A key estimator that takes every mean chroma for valid.
KeyChromaAccepted(mean_chroma) == FALSE

\* line 90
KeyChromaInvalid(mean_chroma) ==
    VectorSum(mean_chroma.num) = 0 \/ AnyNaN(mean_chroma.num)

\* np.roll(profile, i), from pitch class 0
Rolled(profile, i) == [p \in PitchClasses |-> profile[((p + 12 - i) % 12) + 1]]

\* lines 99-109: the first rotation whose correlation no other reaches.  The
\* rotations of one profile have one deviation, so their correlations with x
\* compare as their covariances.
BestRotation(x, profile) ==
    LET covariance == [i \in PitchClasses |-> Covariance(x, Rolled(profile, i))]
    IN  CHOOSE i \in PitchClasses :
            /\ \A j \in PitchClasses : covariance[j] <= covariance[i]
            /\ \A j \in 0..(i - 1) : covariance[j] < covariance[i]

\* lines 80-123: the keys _estimate_key may return.  Whether the best minor
\* key beats the best major key is a comparison of two square roots, which
\* is left open: either may be returned.  A valid correlation is taken to be
\* above the initial -1.
EstimateKey(frames) ==
    LET mean_chroma == MeanChroma(frames)
        x == mean_chroma.num
    IN  IF KeyChromaInvalid(mean_chroma) THEN {"Unknown"}
        ELSE IF AnyNaN(x) \/ Deviation(x) = 0 THEN {"C major"}
        ELSE {NoteNames[BestRotation(x, MajorProfile) + 1] \o " major",
              NoteNames[BestRotation(x, MinorProfile) + 1] \o " minor"}

\* A threshold no correlation passes.
AlwaysTooLow(correlation) == TRUE

\* line 176: best_correlation < 0.6
TooLow(correlation) ==
    correlation.n < 0 \/ 25 * correlation.n * correlation.n < 9 * correlation.d

\* line 158
ChordChromaInvalid(chroma_vector) ==
    VectorSum(chroma_vector.num) = 0 \/ AnyNaN(chroma_vector.num)

\* lines 161-174: the loop over the templates from the k-th on
RECURSIVE MatchLoop(_, _, _)
MatchLoop(chroma_vector, k, best) ==
    IF k > 24 THEN best
    ELSE
      LET name == TemplateNames[k]
          computed == Correlation(chroma_vector.num, ChordTemplates[k])
          correlation == IF CorrIsNaN(computed) THEN CorrZero ELSE computed
      IN  IF CorrGreater(correlation, best.confidence)
          THEN MatchLoop(chroma_vector, k + 1,
                  [chord |-> GetChordName(name.root, name.chord_type),
                   confidence |-> correlation])
          ELSE MatchLoop(chroma_vector, k + 1, best)

\* lines 153-181
MatchChordTemplate(chroma_vector) ==
    IF ChordChromaInvalid(chroma_vector)
    THEN [chord |-> "N", confidence |-> CorrZero]
    ELSE LET best == MatchLoop(chroma_vector, 1,
                        [chord |-> "N", confidence |-> CorrMinusOne])
         IN  IF TooLow(best.confidence)
             THEN [chord |-> "N", confidence |-> CorrZero]
             ELSE best

\* The frames of the k-th segment: chroma[:, i:end_idx]
SegmentFrames(frames, k) ==
    SubSeq(frames, (k - 1) * SegmentLength + 1,
           IF k * SegmentLength < Len(frames) THEN k * SegmentLength
                                              ELSE Len(frames))

\* lines 125-151.  The time of a segment is kept as the index of its first
\* frame.
DetectChordProgression(frames) ==
    [k \in 1..((Len(frames) + SegmentLength - 1) \div SegmentLength) |->
        LET mean == MeanChroma(SegmentFrames(frames, k))
            total == VectorSum(mean.num)
            segment_chroma == IF ~IsNaN(total) /\ total > 0
                              THEN Normalise(mean) ELSE mean
            match == MatchChordTemplate(segment_chroma)
        IN  [time |-> (k - 1) * SegmentLength,
             chord |-> match.chord,
             confidence |-> IF CorrIsNaN(match.confidence) THEN CorrZero
                            ELSE match.confidence]]

\* np.max(chroma, axis=0) - np.mean(chroma, axis=0) of one frame, times 12
FrameClarity(frame) ==
    IF AnyNaN(frame) THEN NaN
    ELSE LET max == CHOOSE m \in {frame[p] : p \in PitchClasses} :
                        \A p \in PitchClasses : frame[p] <= m
         IN  12 * max - VectorSum(frame)

RECURSIVE ClaritySum(_)
ClaritySum(frames) ==
    IF frames = <<>> THEN 0
    ELSE Plus(FrameClarity(Head(frames)), ClaritySum(Tail(frames)))

\* lines 212-220: min(2 * clarity, 1.0), and 0.5 for a NaN
CalculateConfidence(frames) ==
    IF frames = <<>> \/ IsNaN(ClaritySum(frames)) THEN Rat(1, 2)
    ELSE IF 2 * ClaritySum(frames) > 12 * Len(frames) THEN Rat(1, 1)
    ELSE Rat(2 * ClaritySum(frames), 12 * Len(frames))

ZeroFrame == [p \in PitchClasses |-> 0]
Masks == {Template(root, chord_type) :
             root \in PitchClasses, chord_type \in {"major", "minor"}}

\* Frames with a value that is not a number.
NaNFrames ==
    {[f EXCEPT ![p] = NaN] :
        f \in {ZeroFrame, Template(0, "major")}, p \in {0, 11}}

\* The first frame of a matrix is any of these, a later frame one of a few.
Frames == {ZeroFrame} \cup Masks \cup NaNFrames
LaterFrames ==
    {ZeroFrame, Template(0, "major"), Template(9, "minor"),
     [ZeroFrame EXCEPT ![0] = NaN]}

ChromaMatrices ==
    {<<>>} \cup
    {<<f>> \o rest :
        f \in Frames,
        rest \in UNION {[1..n -> LaterFrames] : n \in 0..(MaxFrames - 1)}}

NoDetection == [pending |-> TRUE]

\* detect_chords, lines 18-44: the key, the chord progression and the
\* confidence of a chroma matrix (the smoothing of line 30 is
\* SmoothChordProgression above)
DetectChords ==
    /\ detected = NoDetection
    /\ \E key \in EstimateKey(chroma) :
          detected' = [key |-> key,
                       chord_progression |-> DetectChordProgression(chroma),
                       confidence |-> CalculateConfidence(chroma)]
    /\ UNCHANGED <<chroma, ledgerVars, smoothVars, lyricVars, preVars>>

\* detect_chords, lines 46-54: the analysis raised
DetectChordsFailed ==
    /\ detected = NoDetection
    /\ detected' = [key |-> "Unknown", chord_progression |-> <<>>,
                    confidence |-> Rat(0, 1), error |-> "Exception"]
    /\ UNCHANGED <<chroma, ledgerVars, smoothVars, lyricVars, preVars>>

InitChordIdle ==
    /\ chroma = <<>>
    /\ detected = NoDetection

-----------------------------------------------------------------------------
(***************************************************************************)
(* Audio preprocessing: LyricExtractor._preprocess_audio.                  *)
(*                                                                         *)
(* The audio in memory is the list of the stages that have changed it      *)
(* since it was loaded.  Every stage calls into pydub and may raise;       *)
(* whether it does is an input.                                            *)
(***************************************************************************)
MaxChannels == 3      \* the most channels of an audio file

\* lines 176-193: the stages between the vocal isolation and the export
EnhanceStages ==
    <<"normalize", "high_pass_filter", "low_pass_filter", "gain",
      "set_frame_rate", "normalize_final">>

Clips == [channels : 1..MaxChannels, vocal_isolation : BOOLEAN]
NothingReturned == [path |-> "none", stages |-> <<>>]

\* lines 200-202: the except clause of the whole function returns the path
\* it was given, the file no stage has touched
Abort ==
    /\ ppc' = "returned"
    /\ returned' = [path |-> "audio_path", stages |-> <<>>]
    /\ UNCHANGED audio

\* line 142: AudioSegment.from_file(audio_path)
FromFile(ok) ==
    /\ ppc = "from_file"
    /\ IF ok
       THEN /\ audio' = <<>>
            /\ ppc' = "set_channels"
            /\ UNCHANGED returned
       ELSE Abort
    /\ UNCHANGED <<clip, ledgerVars, smoothVars, lyricVars, chordVars>>

\* lines 145-146: the downmix of a file of more than one channel
SetChannels(ok) ==
    /\ ppc = "set_channels"
    /\ IF clip.channels > 1
       THEN IF ok
            THEN /\ audio' = Append(audio, "set_channels")
                 /\ ppc' = "vocal_isolation"
                 /\ UNCHANGED returned
            ELSE Abort
       ELSE /\ ok
            /\ ppc' = "vocal_isolation"
            /\ UNCHANGED <<audio, returned>>
    /\ UNCHANGED <<clip, ledgerVars, smoothVars, lyricVars, chordVars>>

\* lines 149-172: the file is loaded again and, when it has two channels,
\* its mid/side mix replaces the audio; a failure in here is caught by the
\* inner except clause and the audio stays what it was
VocalIsolation(ok) ==
    /\ ppc = "vocal_isolation"
    /\ IF clip.vocal_isolation /\ clip.channels = 2 /\ ok
       THEN audio' = <<"mid_side">>
       ELSE /\ clip.vocal_isolation \/ ok
            /\ audio' = audio
    /\ ppc' = EnhanceStages[1]
    /\ UNCHANGED <<clip, returned, ledgerVars, smoothVars, lyricVars, chordVars>>

\* lines 176-193: one of the enhancement stages
Enhance(ok) ==
    /\ \E i \in DOMAIN EnhanceStages :
          /\ ppc = EnhanceStages[i]
          /\ IF ok
             THEN /\ audio' = Append(audio, EnhanceStages[i])
                  /\ ppc' = IF i < Len(EnhanceStages) THEN EnhanceStages[i + 1]
                                                      ELSE "export"
                  /\ UNCHANGED returned
             ELSE Abort
    /\ UNCHANGED <<clip, ledgerVars, smoothVars, lyricVars, chordVars>>

\* lines 196-198: the audio is written to a temporary file, whose name is
\* returned
Export(ok) ==
    /\ ppc = "export"
    /\ IF ok
       THEN /\ ppc' = "returned"
            /\ returned' = [path |-> "temp_file", stages |-> audio]
            /\ UNCHANGED audio
       ELSE Abort
    /\ UNCHANGED <<clip, ledgerVars, smoothVars, lyricVars, chordVars>>

InitPreIdle ==
    /\ clip = [channels |-> 1, vocal_isolation |-> FALSE]
    /\ audio = <<>>
    /\ ppc = "idle"
    /\ returned = NothingReturned

-----------------------------------------------------------------------------
InitLedger ==
    /\ jobs = EmptyLedger
    /\ disk = [ok |-> TRUE, data |-> EmptyLedger]
    /\ lock = NoThread
    /\ now = 0
    /\ calls = 0
    /\ lastWrite = "loaded"
    /\ results = [j \in JobIds |-> FALSE]
    /\ th = [t \in Threads |-> Idle]
    /\ last = NoCall

InitSmoothIdle ==
    /\ prog = <<>>
    /\ sm1 = <<>>
    /\ sm2 = <<>>
    /\ spc = 0

Init ==
    /\ InitLedger
    /\ InitSmoothIdle
    /\ InitLyricIdle
    /\ InitChordIdle
    /\ InitPreIdle

Next ==
    \/ \E t \in Threads, j \in JobIds : CreateJob(t, j)
    \/ \E t \in Threads, j \in JobIds, s \in Statuses : UpdateJobStatus(t, j, s)
    \/ \E t \in Threads : UpdateStamp(t)
    \/ \E t \in Threads : SaveJobs(t)
    \/ \E t \in Threads, j \in JobIds : GetJob(t, j)
    \/ \E t \in Threads, j \in JobIds : UploadFile(t, j)
    \/ \E t \in Threads, j \in JobIds : ProcessCheck(t, j)
    \/ \E t \in Threads : ProcessUpdate(t)
    \/ \E t \in Threads : ProcessSpawn(t)
    \/ \E t \in Threads, j \in JobIds : DownloadResults(t, j)
    \/ \E t \in Threads, j \in JobIds : RunLookup(t, j)
    \/ \E t \in Threads : RunAnalyse(t)
    \/ Restart
    \/ Construct

Spec == Init /\ [][Next]_vars


InitSmooth ==
    /\ prog \in Progressions
    /\ sm1 = <<>>
    /\ sm2 = <<>>
    /\ spc = 0
    /\ InitLedger
    /\ InitLyricIdle
    /\ InitChordIdle
    /\ InitPreIdle

NextSmooth == SmoothOnce \/ SmoothAgain

SmoothSpec == InitSmooth /\ [][NextSmooth]_vars

InitLyric ==
    /\ \E parts \in TranscriptParts : whisper = Timed(parts, 0)
    /\ lyrics_data = NoLyrics
    /\ InitLedger
    /\ InitSmoothIdle
    /\ InitChordIdle
    /\ InitPreIdle

NextLyric == ExtractLyrics \/ ExtractLyricsFailed

LyricSpec == InitLyric /\ [][NextLyric]_vars

InitChord ==
    /\ chroma \in ChromaMatrices
    /\ detected = NoDetection
    /\ InitLedger
    /\ InitSmoothIdle
    /\ InitLyricIdle
    /\ InitPreIdle

NextChord == DetectChords \/ DetectChordsFailed

ChordSpec == InitChord /\ [][NextChord]_vars

InitPre ==
    /\ clip \in Clips
    /\ audio = <<>>
    /\ ppc = "from_file"
    /\ returned = NothingReturned
    /\ InitLedger
    /\ InitSmoothIdle
    /\ InitLyricIdle
    /\ InitChordIdle

NextPre ==
    \E ok \in BOOLEAN :
        \/ FromFile(ok)
        \/ SetChannels(ok)
        \/ VocalIsolation(ok)
        \/ Enhance(ok)
        \/ Export(ok)

PreSpec == InitPre /\ [][NextPre]_vars

-----------------------------------------------------------------------------
(***************************************************************************)
(* The claims.                                                             *)
(***************************************************************************)

\* The edges the job state machine allows.
AllowedEdges == {<<"uploaded", "processing">>, <<"processing", "completed">>,
                 <<"processing", "failed">>}

\* C1: a job's status changes only along Uploaded->Processing,
\* Processing->Completed and Processing->Failed, and a status update that
\* asks for any other edge returns an invalid-transition error.
C1_OnlyAllowedEdges ==
    [][/\ \A j \in JobIds :
             (/\ jobs[j] # Absent
              /\ jobs'[j] # Absent
              /\ jobs'[j].status # jobs[j].status)
             => <<jobs[j].status, jobs'[j].status>> \in AllowedEdges
       /\ (/\ last'.op = "update"
           /\ last'.old \in Statuses
           /\ <<last'.old, last'.arg>> \notin AllowedEdges)
          => last'.ret = "InvalidTransitionError"]_vars

\* The process requests for job j that have passed the 'uploaded' check and
\* have moved the job to 'processing'.
Moved(j) == {t \in Threads : /\ th[t].op = "process"
                             /\ th[t].job = j
                             /\ th[t].pc \in {"stamp", "save", "spawn"}}

\* C2: single flight: for no job do two process requests both pass the
\* Uploaded check and both move the job to Processing.
C2_SingleFlight == \A j \in JobIds : Cardinality(Moved(j)) <= 1

\* Every call has returned.
Quiet == \A t \in Threads : th[t].pc = "idle"

\* C3: once the run for a job that was Processing has returned (and no other
\* call is in progress), the job's status in the ledger is no longer
\* Processing.
C3_RunLeavesProcessing ==
    (last.op = "run" /\ last.old = "processing" /\ Quiet)
        => jobs[last.job].status # "processing"

\* C4: create with an id that is already in the ledger fails with a
\* duplicate-job error and leaves the ledger as it was.
C4_CreateNeverOverwrites ==
    [][/\ \A t \in Threads :
             (/\ th[t].pc = "idle"
              /\ th'[t].op = "create"
              /\ jobs[th'[t].job] # Absent)
             => jobs' = jobs
       /\ (last'.op = "create" /\ last'.old # "absent")
             => last'.ret = "DuplicateJobError"]_vars

\* C5: a get or a status update on an id that is not in the ledger is
\* reported to the caller as not found (for get_job, None is taken as that
\* report), and nothing is silently ignored.
C5_NotFoundIsReported ==
    /\ (last.op = "get" /\ last.obs = Absent)
          => last.ret \in {"none", "NotFoundError"}
    /\ (last.op = "update" /\ last.old = "absent")
          => last.ret = "NotFoundError"

\* C6: a get never returns a record of which the status is already the new
\* one and updated_at still the old one.
C6_NoTornRead == last.op = "get" => ~last.mixed

C8_FailedStepGivesFailed ==
    last.op = "run" =>
        /\ last.ret \in {"completed", "failed"}
        /\ last.failed # {} => (last.ret = "failed" /\ last.err)
        /\ last.ret = "completed" => last.failed = {}

\* C9: when a run on a Processing job has returned a Completed result (and no
\* other call is in progress), the result document is on disk and the job is
\* Completed in the ledger.
C9_CompletedAfterRun ==
    (last.op = "run" /\ last.ret = "completed" /\ last.old = "processing"
        /\ Quiet)
        => (results[last.job] /\ jobs[last.job].status = "completed")

\* C10: smoothing is idempotent: smoothing a smoothed progression gives it
\* back.
C10_SmoothIdempotent == spc = 2 => sm2 = sm1

\* Both passes have run on a progression of four segments from which the
\* first pass dropped the second (same chord as the first) and the third (a
\* different chord that starts less than min_duration after the first).
C10_Witness ==
    /\ spc = 2
    /\ Len(prog) = 4
    /\ Len(sm1) = 2
    /\ prog[2].chord = prog[1].chord
    /\ prog[3].chord # prog[1].chord
    /\ prog[3].time - prog[1].time < MinDuration

\* C11: the last segment of a non-empty progression is the last segment of
\* the smoothed progression, and a progression of at most one segment is
\* returned as it is.
C11_LastRetained ==
    spc >= 1 =>
        /\ Len(prog) >= 1 =>
              (Len(sm1) >= 1 /\ sm1[Len(sm1)] = prog[Len(prog)])
        /\ Len(prog) <= 1 => sm1 = prog

\* A progression of three segments with one chord has been smoothed: the last
\* one is kept only for being the last.
C11_Witness ==
    /\ spc >= 1
    /\ Len(prog) = 3
    /\ prog[2].chord = prog[1].chord
    /\ prog[3].chord = prog[1].chord
    /\ sm1 = <<prog[1], prog[3]>>

\* s is p with some elements left out, the order kept.
RECURSIVE IsSubsequence(_, _)
IsSubsequence(s, p) ==
    IF s = <<>> THEN TRUE
    ELSE IF p = <<>> THEN FALSE
    ELSE IF Head(s) = Head(p) THEN IsSubsequence(Tail(s), Tail(p))
    ELSE IsSubsequence(s, Tail(p))

\* C17: the first segment is retained, the smoothed progression is a
\* subsequence of the input, and every retained segment other than the first
\* and the final one has a chord different from the retained segment before
\* it and starts at least min_duration after it.
C17_SmoothedShape ==
    (spc >= 1 /\ Len(prog) >= 1) =>
        /\ Len(sm1) >= 1
        /\ sm1[1] = prog[1]
        /\ IsSubsequence(sm1, prog)
        /\ \A k \in 2..(Len(sm1) - 1) :
              /\ sm1[k].chord # sm1[k - 1].chord
              /\ sm1[k].time - sm1[k - 1].time >= MinDuration

\* A progression of four segments has been smoothed to three: one segment in
\* the middle was dropped, one was retained, and the final one is retained
\* with the chord of the one before it.
C17_Witness ==
    /\ spc >= 1
    /\ Len(prog) = 4
    /\ Len(sm1) = 3
    /\ sm1[2].chord # sm1[1].chord
    /\ sm1[3].chord = sm1[2].chord

\* The text is empty or blank.
WhitespaceOnly(text) == text \in {"", " "}

\* extract_lyrics has returned the result of a transcription.
Extracted == "duration" \in DOMAIN lyrics_data

\* C12: every emitted segment has a confidence above 0.2, and every word
\* emitted inside a segment has a confidence above 0.1 and is not
\* whitespace-only.
C12_EmittedAboveThresholds ==
    "segments" \in DOMAIN lyrics_data =>
        \A i \in DOMAIN lyrics_data.segments :
            LET s == lyrics_data.segments[i]
            IN  /\ RatGreater(s.confidence, SegmentThreshold)
                /\ "words" \in DOMAIN s =>
                      \A k \in DOMAIN s.words :
                          /\ s.words[k].confidence > WordThreshold
                          /\ ~WhitespaceOnly(s.words[k].word)

\* A raw segment of two words has been emitted with one of them.
C12_Witness ==
    /\ Extracted
    /\ Len(whisper) = 1
    /\ "words" \in DOMAIN whisper[1]
    /\ Len(whisper[1].words) = 2
    /\ Len(lyrics_data.segments) = 1
    /\ Len(lyrics_data.segments[1].words) = 1

\* The duration-weighted mean of the confidences of the emitted segments.
SurvivingConfidence(segments) ==
    IF segments = <<>> THEN Rat(0, 1)
    ELSE WeightedMean([i \in 1..Len(segments) |->
            [confidence |-> segments[i].confidence,
             duration |-> segments[i].end - segments[i].start]])

\* C13: the transcript confidence is the duration-weighted mean of the
\* confidences of the emitted segments, and the total duration is the end of
\* the last emitted segment; dropped segments contribute to neither.
C13_AggregatesOverSurvivors ==
    Extracted =>
        /\ RatEqual(lyrics_data.confidence,
                    SurvivingConfidence(lyrics_data.segments))
        /\ lyrics_data.duration = GetTotalDuration(lyrics_data.segments)

\* C16: every emitted segment with a 'words' field has a non-empty word
\* list, and a raw segment with word data none of whose words survives the
\* word filter is not emitted, whatever its confidence.
C16_WordlessSegmentDropped ==
    Extracted =>
        /\ \A i \in DOMAIN lyrics_data.segments :
              "words" \in DOMAIN lyrics_data.segments[i]
                  => Len(lyrics_data.segments[i].words) >= 1
        /\ \A i \in DOMAIN whisper :
              (/\ "words" \in DOMAIN whisper[i]
               /\ \A k \in DOMAIN whisper[i].words :
                     ~WordKept(whisper[i].words[k]))
              => \A e \in DOMAIN lyrics_data.segments :
                     lyrics_data.segments[e].start # whisper[i].start

\* A raw segment with a confidence above the segment threshold, all of whose
\* words are filtered out, has been dropped.
C16_Witness ==
    /\ Extracted
    /\ Len(whisper) = 1
    /\ "words" \in DOMAIN whisper[1]
    /\ Len(whisper[1].words) >= 1
    /\ RatGreater(GetSegmentConfidence(whisper[1]), SegmentThreshold)
    /\ lyrics_data.segments = <<>>

\* detect_chords has returned the analysis of the chroma matrix.
Analysed == "chord_progression" \in DOMAIN detected /\ "error" \notin DOMAIN detected

\* The frames are all zero, or one of them has a NaN.
Degenerate(frames) ==
    \/ \A i \in DOMAIN frames : frames[i] = ZeroFrame
    \/ \E i \in DOMAIN frames : AnyNaN(frames[i])

KeyNames ==
    {NoteNames[i] \o " major" : i \in 1..12} \cup
    {NoteNames[i] \o " minor" : i \in 1..12}
ChordNames ==
    {NoteNames[i] : i \in 1..12} \cup {NoteNames[i] \o "m" : i \in 1..12}

\* C14: a chroma that is all zero or contains a NaN gives the key 'Unknown',
\* and a segment of such chroma gives the chord 'N' with confidence 0; the
\* key, the chords and the confidences of the output are never invalid.
C14_DegenerateChroma ==
    Analysed =>
        /\ (Len(chroma) >= 1 /\ Degenerate(chroma)) => detected.key = "Unknown"
        /\ \A k \in DOMAIN detected.chord_progression :
              Degenerate(SegmentFrames(chroma, k)) =>
                  /\ detected.chord_progression[k].chord = "N"
                  /\ detected.chord_progression[k].confidence = CorrZero
        /\ detected.key \in KeyNames \cup {"Unknown"}
        /\ detected.confidence.d > 0
        /\ \A k \in DOMAIN detected.chord_progression :
              /\ detected.chord_progression[k].chord \in ChordNames \cup {"N"}
              /\ ~CorrIsNaN(detected.chord_progression[k].confidence)

\* A matrix of a first segment that matches a chord and a second one with a
\* NaN has been analysed.
C14_Witness ==
    /\ Analysed
    /\ Len(chroma) = SegmentLength + 1
    /\ AnyNaN(chroma[SegmentLength + 1])
    /\ detected.key = "Unknown"
    /\ detected.chord_progression[1].chord # "N"
    /\ detected.chord_progression[2].chord = "N"

\* The mask the chord of a root and type is defined by: the root, its major
\* or minor third, and its fifth.
MaskOf(root, chord_type) ==
    [p \in PitchClasses |->
        IF \/ p = root
           \/ p = (root + (IF chord_type = "minor" THEN 3 ELSE 4)) % 12
           \/ p = (root + 7) % 12
        THEN 1 ELSE 0]

\* The label of the chord of a root and type.
LabelOf(root, chord_type) ==
    NoteNames[root + 1] \o (IF chord_type = "minor" THEN "m" ELSE "")

\* C15: a segment whose chroma is the mask of one of the 24 templates is
\* given that template's label with a correlation of at least 0.6, and the
\* normalised mask correlates more with its own template than with any other.
C15_TemplateMatchesItself ==
    Analysed =>
        \A k \in DOMAIN detected.chord_progression :
          \A root \in PitchClasses, chord_type \in {"major", "minor"} :
            (\A i \in DOMAIN SegmentFrames(chroma, k) :
                SegmentFrames(chroma, k)[i] = MaskOf(root, chord_type))
            => /\ detected.chord_progression[k].chord = LabelOf(root, chord_type)
               /\ ~TooLow(detected.chord_progression[k].confidence)
               /\ \A other \in 1..24 :
                     TemplateNames[other] # [root |-> root, chord_type |-> chord_type]
                     => CorrGreater(
                           detected.chord_progression[k].confidence,
                           Correlation(MaskOf(root, chord_type),
                                       ChordTemplates[other]))

\* The mask of A minor alone has been analysed and labelled Am.
C15_Witness ==
    /\ Analysed
    /\ chroma = <<MaskOf(9, "minor")>>
    /\ detected.chord_progression[1].chord = "Am"
    /\ detected.chord_progression[1].confidence.n > 0

\* C18: a stage that fails makes the chain go on from the output of the
\* stage before it, so what _preprocess_audio returns has the effect of
\* every stage that ran before the failing one.
C18_EarlierStagesKept ==
    ppc = "returned" => returned.stages = audio

\* Thread t returns from create_job or update_job_status in this step.
Returns(t) ==
    /\ th[t].pc = "save"
    /\ th[t].op \in {"create", "update"}
    /\ th'[t] = Idle
    /\ last' = Returned(th[t], "ok")

\* What the returning call of thread t wrote is in the ledger as it returns.
EffectPresent(t) ==
    /\ th[t].op = "create" => jobs'[th[t].job] = NewJob
    /\ (th[t].op = "update" /\ th[t].old # "absent") =>
          /\ jobs'[th[t].job].status = th[t].arg
          /\ jobs'[th[t].job].updated_at >= 1

=============================================================================
